---- MODULE Spec2Model ----
(***************************************************************************)
(* Model of the in-memory concerts REST server of src/main.py: the module  *)
(* level list `concerts`, the counter `concerts_key`, and one action per   *)
(* route handler, each handling one request from start to finish (Spec).   *)
(* SpecRace is the threaded server handling two POST /concerts requests at *)
(* the same time, one step per access to the globals.                      *)
(***************************************************************************)
EXTENDS Integers, Sequences, FiniteSets, TLC

VARIABLES
    concerts,       \* the list of records
    concerts_key,   \* the auto-increment counter
    response,       \* the response to the request handled last
    generated,      \* history: the ids generated by POST /concerts, oldest first
    threads         \* concurrent handling: each worker thread's position and locals

vars == <<concerts, concerts_key, response, generated, threads>>

\* Bounds of the model.
MaxLen == 3   \* longest store explored
MaxId == 4    \* largest id a client sends or the server generates

----------------------------------------------------------------------------
\* Python values

\* Python's None, as returned by content_index (indexes are >= 0).
None == -1

\* The test `if index is not None:`, which takes index 0 for found
TruthyNotNone(index) == index # None

\* Truth value of `if index:`: None and 0 are both falsy.
Truthy(index) == index # None /\ index # 0

\* A JSON object / Python dict is a function from its keys to its values.
EmptyDict == [k \in {} |-> 0]

----------------------------------------------------------------------------
\* datetime.fromisoformat and datetime.isoformat
\* An ISO text is the record of its parts as written; a datetime is the record
\* of the moment's fields with the offset in minutes.

DaysInMonth(y, m) ==
    IF m \in {4, 6, 9, 11} THEN 30
    ELSE IF m = 2 THEN (IF y % 4 = 0 /\ (y % 100 # 0 \/ y % 400 = 0) THEN 29 ELSE 28)
    ELSE 31

\* <<datetime>> when the text parses, <<>> when fromisoformat raises ValueError.
fromisoformat(text) ==
    IF /\ text.month \in 1..12
       /\ text.day \in 1..DaysInMonth(text.year, text.month)
       /\ text.hour \in 0..23
       /\ text.minute \in 0..59
       /\ text.second \in 0..59
       /\ text.tzhour \in 0..23
       /\ text.tzminute \in 0..59
    THEN << [year |-> text.year, month |-> text.month, day |-> text.day,
             hour |-> text.hour, minute |-> text.minute, second |-> text.second,
             utcoffset |-> (IF text.tzsign = "-" THEN -1 ELSE 1)
                             * (text.tzhour * 60 + text.tzminute)] >>
    ELSE << >>

isoformat(dt) ==
    LET off == IF dt.utcoffset < 0 THEN -dt.utcoffset ELSE dt.utcoffset
    IN  [year |-> dt.year, month |-> dt.month, day |-> dt.day, sep |-> "T",
         hour |-> dt.hour, minute |-> dt.minute, second |-> dt.second,
         tzsign |-> IF dt.utcoffset < 0 THEN "-" ELSE "+",
         tzhour |-> off \div 60, tzminute |-> off % 60]

IsoText(y, mo, d, sep, h, mi, s, sign, tzh, tzm) ==
    [year |-> y, month |-> mo, day |-> d, sep |-> sep, hour |-> h, minute |-> mi,
     second |-> s, tzsign |-> sign, tzhour |-> tzh, tzminute |-> tzm]

\* '2017-07-20T20:00:00-02:00' and '2022-09-26T15:00:00-02:00'
PinkFloydDate == IsoText(2017, 7, 20, "T", 20, 0, 0, "-", 2, 0)
KraftwerkDate == IsoText(2022, 9, 26, "T", 15, 0, 0, "-", 2, 0)
\* '2023-05-01 21:30:00+01:00' (a blank separator parses) and '2023-13-01T21:30:00+01:00'
BlankSepDate == IsoText(2023, 5, 1, " ", 21, 30, 0, "+", 1, 0)
BadMonthDate == IsoText(2023, 13, 1, "T", 21, 30, 0, "+", 1, 0)

----------------------------------------------------------------------------
\* The store after the module is loaded

InitConcerts ==
    << [id |-> 1, artist |-> "Pink Floyd", venue |-> "Werchter",
        date |-> fromisoformat(PinkFloydDate)[1]],
       [id |-> 2, artist |-> "Kraftwerk", venue |-> "Domaine National de St Cloud",
        date |-> fromisoformat(KraftwerkDate)[1]] >>

InitConcertsKey == 3

----------------------------------------------------------------------------
\* JSON values of the "id" member of a body, and Python's int() of them.
\* int() gives <<n>>, or <<>> when it raises ValueError.

JsonNumber(n) == [number |-> n]
JsonString(s) == [string |-> s]

DecimalText == ("1" :> 1) @@ ("2" :> 2) @@ ("3" :> 3) @@ ("4" :> 4) @@ ("5" :> 5)

int(x) ==
    IF "number" \in DOMAIN x THEN << x.number >>
    ELSE IF x.string \in DOMAIN DecimalText THEN << DecimalText[x.string] >>
    ELSE << >>

----------------------------------------------------------------------------
\* View helpers

Min(a, b) == IF a < b THEN a ELSE b

\* content_list[lo:hi] for 0 <= lo, 0 <= hi
Slice(content_list, lo, hi) == SubSeq(content_list, lo + 1, Min(hi, Len(content_list)))

\* limit_offset that slices only when both limit and offset are given
limit_offset_both(content_list, limit, offset) ==
    IF limit # 0 /\ offset # 0
    THEN Slice(content_list, offset, offset + limit)
    ELSE content_list

limit_offset(content_list, limit, offset) ==
    IF limit # 0 \/ offset # 0
    THEN Slice(content_list, offset, offset + limit)
    ELSE content_list

\* fields is the sequence of names between the commas; << >> is the empty or
\* absent string.
reduce_fields(content_list, fields) ==
    IF fields # << >>
    THEN LET names == {fields[i] : i \in 1..Len(fields)}
         IN  [i \in 1..Len(content_list) |->
                 [k \in DOMAIN content_list[i] \cap names |-> content_list[i][k]]]
    ELSE content_list

\* What stands for the result of a call that raised this exception
Raised(exception) == << [raised |-> exception] >>

\* encode_date that looks at every record for the fields, not at the first only
encode_date_each(content_list, fields) ==
    LET names == {fields[i] : i \in 1..Len(fields)}
    IN  [index \in 1..Len(content_list) |->
            IF names \subseteq DOMAIN content_list[index]
            THEN [k \in DOMAIN content_list[index] |->
                     IF k \in names THEN isoformat(content_list[index][k])
                     ELSE content_list[index][k]]
            ELSE content_list[index]]

\* fields is the sequence of names between the commas.  The result is a new
\* list (deepcopy): the list passed in stays as it is.
encode_date(content_list, fields) ==
    LET names == {fields[i] : i \in 1..Len(fields)}
    IN  IF content_list # << >> /\ \A field \in names : field \in DOMAIN content_list[1]
        THEN IF \E index \in 1..Len(content_list) :
                    ~(names \subseteq DOMAIN content_list[index])
             THEN Raised("KeyError")
             ELSE [index \in 1..Len(content_list) |->
                      [k \in DOMAIN content_list[index] |->
                          IF k \in names THEN isoformat(content_list[index][k])
                          ELSE content_list[index][k]]]
        ELSE content_list

\* The first 0-based index of a record whose field equals value, or None.
content_index(content_list, field, value) ==
    LET found == {index \in 0..(Len(content_list) - 1) :
                      content_list[index + 1][field] = value}
    IN  IF content_list # << >> /\ field \in DOMAIN content_list[1] /\ found # {}
        THEN CHOOSE index \in found : \A other \in found : index <= other
        ELSE None

----------------------------------------------------------------------------
\* Responses

ErrorResponse(message, status) ==
    [status |-> status, kind |-> "error", error |-> message, body |-> << >>,
     location |-> << >>]

EmptyResponse(status, location) ==
    [status |-> status, kind |-> "empty", error |-> "", body |-> << >>,
     location |-> location]

ObjectResponse(object, status) ==
    [status |-> status, kind |-> "object", error |-> "", body |-> << object >>,
     location |-> << >>]

ArrayResponse(list, status) ==
    [status |-> status, kind |-> "array", error |-> "", body |-> list,
     location |-> << >>]

\* An exception that no except clause of the handler catches: Flask answers
\* 500 Internal Server Error.
Unhandled(exception) ==
    [status |-> 500, kind |-> "exception", error |-> exception,
     body |-> << >>, location |-> << >>]

\* What a handler leaves behind: the globals and the response.
Outcome(list, key, gen, resp) ==
    [concerts |-> list, concerts_key |-> key, generated |-> gen, response |-> resp]

Return(resp) == Outcome(concerts, concerts_key, generated, resp)

----------------------------------------------------------------------------
\* Handlers. Each reads the globals concerts and concerts_key and gives the
\* Outcome of one request.

\* Mutant of Concert: the artist and the venue change places.
ConcertSwapped(identity, artist, venue, dt) ==
    [id |-> identity, artist |-> venue, venue |-> artist, date |-> dt]

\* {'id': identity, 'artist': artist, 'venue': venue, 'date': dt}
Concert(identity, artist, venue, dt) ==
    [id |-> identity, artist |-> artist, venue |-> venue, date |-> dt]

\* Mutant of AdvanceKey: the counter stops at the accepted id.
AdvanceKeyOffByOne(identity) ==
    IF identity < concerts_key THEN concerts_key ELSE identity

\* Mutant of AdvanceKey: an accepted id leaves the counter where it is.
AdvanceKeyNever(identity) == concerts_key

\* Mutant of AdvanceKey: the counter always follows the accepted id.
AdvanceKeyAlways(identity) == identity + 1

\* concerts_key if identity < concerts_key else identity+1
\* (the same expression in post_concerts and in put_concerts_id)
AdvanceKey(identity) ==
    IF identity < concerts_key THEN concerts_key ELSE identity + 1

\* POST /concerts
post_concerts(is_json, json) ==
    IF ~is_json THEN Return(ErrorResponse("Incorrect Content-Type", 400))
    ELSE IF ~({"artist", "venue", "date"} \subseteq DOMAIN json)
    THEN Return(ErrorResponse("Missing field(s)", 400))
    ELSE IF fromisoformat(json["date"]) = << >>
    THEN Return(ErrorResponse("Wrong datetime format", 400))
    ELSE
      LET artist == json["artist"]
          venue == json["venue"]
          dt == fromisoformat(json["date"])[1]
          Created(identity, key, gen) ==
              Outcome(Append(concerts, Concert(identity, artist, venue, dt)), key, gen,
                      EmptyResponse(201, << identity >>))
      IN  IF "id" \in DOMAIN json
          THEN IF int(json["id"]) = << >>
               THEN Return(Unhandled("ValueError"))
               ELSE LET identity == int(json["id"])[1]
                    IN  IF Truthy(content_index(concerts, "id", identity))
                        THEN Return(ErrorResponse("Resource already exists", 400))
                        ELSE Created(identity, AdvanceKey(identity), generated)
          ELSE Created(concerts_key, concerts_key + 1, Append(generated, concerts_key))

\* POST /concerts/<int:identity>
post_concerts_id(identity) ==
    IF Truthy(content_index(concerts, "id", identity))
    THEN Return(ErrorResponse("Resource already exists", 409))
    ELSE Return(ErrorResponse("Resource not found", 404))

\* GET /concerts
get_concerts(limit, offset, fields) ==
    LET paged == limit_offset(concerts, limit, offset)
        reduced == reduce_fields(paged, fields)
        encoded == encode_date(reduced, << "date" >>)
    IN  Return(ArrayResponse(encoded, 200))

\* GET /concerts/<int:identity>: the response, the global concerts being list
get_concerts_id_on(list, identity, fields) ==
    LET index == content_index(list, "id", identity)
    IN  IF Truthy(index)
        THEN LET concert_temp ==
                     encode_date(reduce_fields(<< list[index + 1] >>, fields),
                                 << "date" >>)
             IN  ObjectResponse(concert_temp[1], 200)
        ELSE ErrorResponse("Resource not found", 404)

\* GET /concerts/<int:identity>
get_concerts_id(identity, fields) ==
    Return(get_concerts_id_on(concerts, identity, fields))

\* PUT, PATCH, DELETE /concerts
put_concerts == Return(ErrorResponse("Method Not Allowed", 405))
patch_concerts == Return(ErrorResponse("Method Not Allowed", 405))
del_concerts == Return(ErrorResponse("Method Not Allowed", 405))

\* PUT /concerts/<int:identity>
put_concerts_id(identity, is_json, json) ==
    IF ~is_json
    THEN Return(ErrorResponse("Incorrect Content-Type or no JSON payload", 400))
    ELSE IF ~({"artist", "venue", "date"} \subseteq DOMAIN json)
    THEN Return(ErrorResponse("Missing field(s)", 400))
    ELSE IF fromisoformat(json["date"]) = << >>
    THEN Return(Unhandled("ValueError"))
    ELSE
      LET concert == Concert(identity, json["artist"], json["venue"],
                             fromisoformat(json["date"])[1])
          index == content_index(concerts, "id", identity)
      IN  IF Truthy(index)
          THEN Outcome([concerts EXCEPT ![index + 1] = concert], concerts_key, generated,
                       EmptyResponse(204, << >>))
          ELSE Outcome(Append(concerts, concert), AdvanceKey(identity), generated,
                       EmptyResponse(201, << >>))

\* PATCH /concerts/<int:identity>
patch_concerts_id(identity, is_json, json) ==
    IF ~is_json THEN Return(ErrorResponse("Incorrect Content-Type", 400))
    ELSE
      LET index == content_index(concerts, "id", identity)
      IN  IF Truthy(index)
          THEN LET old == concerts[index + 1]
                   withArtist == IF "artist" \in DOMAIN json
                                 THEN [old EXCEPT !["artist"] = json["artist"]] ELSE old
                   withVenue == IF "venue" \in DOMAIN json
                                THEN [withArtist EXCEPT !["venue"] = json["venue"]]
                                ELSE withArtist
               IN  IF "date" \in DOMAIN json
                   THEN IF fromisoformat(json["date"]) = << >>
                        THEN \* the assignments of the loop above have been made
                             Outcome([concerts EXCEPT ![index + 1] = withVenue],
                                     concerts_key, generated, Unhandled("ValueError"))
                        ELSE Outcome([concerts EXCEPT ![index + 1] =
                                         [withVenue EXCEPT !["date"] =
                                             fromisoformat(json["date"])[1]]],
                                     concerts_key, generated, EmptyResponse(204, << >>))
                   ELSE Outcome([concerts EXCEPT ![index + 1] = withVenue],
                                concerts_key, generated, EmptyResponse(204, << >>))
          ELSE Return(ErrorResponse("Resource not found", 404))

\* del concerts[index] that joins the two remaining slices in the wrong order
DelAtRotated(list, index) == SubSeq(list, index + 2, Len(list)) \o SubSeq(list, 1, index)

\* del concerts[index], index 0-based
DelAt(list, index) == SubSeq(list, 1, index) \o SubSeq(list, index + 2, Len(list))

\* DELETE /concerts/<int:identity>
del_concerts_id(identity) ==
    LET index == content_index(concerts, "id", identity)
    IN  IF Truthy(index)
        THEN LET concert_temp == encode_date(<< concerts[index + 1] >>, << "date" >>)
             IN  Outcome(DelAt(concerts, index), concerts_key, generated,
                         ObjectResponse(concert_temp[1], 200))
        ELSE Return(ErrorResponse("Resource not found", 404))

----------------------------------------------------------------------------
\* Requests the clients send

Artists == {"Muse"}
Venues == {"Forest National"}
DateTexts == {BlankSepDate, BadMonthDate}
Ids == 1..MaxId
JsonIds == {JsonNumber(n) : n \in Ids} \cup {JsonString("abc")}
FieldLists == {<< >>, << "artist" >>}
Limits == 0..1
Offsets == 0..1

Member(key, values) == {EmptyDict} \cup {key :> v : v \in values}

\* JSON objects with any subset of artist, venue, date
Fields ==
    {a @@ v @@ d : a \in Member("artist", Artists), v \in Member("venue", Venues),
                   d \in Member("date", DateTexts)}

\* The bodies that pass the checks of the three fields
ValidFields ==
    {f \in Fields : {"artist", "venue", "date"} \subseteq DOMAIN f
                     /\ fromisoformat(f["date"]) # << >>}

\* ... and the bodies of POST /concerts: an "id" is read only from those
Bodies == Fields \cup {f @@ ("id" :> i) : f \in ValidFields, i \in JsonIds}

\* One body for each way through the checks of the three fields: all three
\* with a date that parses, all three with one that does not, and none
FullOrEmpty ==
    {f \in Fields : {"artist", "venue", "date"} \subseteq DOMAIN f} \cup {EmptyDict}

\* ... and with the bodies that carry an "id"
FullOrEmptyOrId == FullOrEmpty \cup (Bodies \ Fields)

\* The bodies of PATCH: those, and one that names a single field
FullOrEmptyOrOne == FullOrEmpty \cup {f \in Fields : DOMAIN f = {"artist"}}

\* No request has been handled yet
NoResponse == [status |-> 0, kind |-> "", error |-> "", body |-> << >>, location |-> << >>]

----------------------------------------------------------------------------
\* The server: requests are handled one at a time, each from start to finish.

\* The worker threads of the threaded server, and a thread that has no request
Threads == {1, 2}
IdleThread ==
    [pc |-> "idle", artist |-> "", venue |-> "", dt |-> << >>,
     identity |-> None, loaded |-> None]

Init ==
    /\ concerts = InitConcerts
    /\ concerts_key = InitConcertsKey
    /\ generated = << >>
    /\ response = NoResponse
    /\ threads = [t \in Threads |-> IdleThread]

\* The bounds of the exploration: the store and the ids stay small.
Fits(out) == Len(out.concerts) <= MaxLen /\ out.concerts_key <= MaxId + 1

PostConcerts ==
    \E is_json \in BOOLEAN, json \in FullOrEmptyOrId :
        /\ is_json \/ json = EmptyDict
        /\ \E out \in {post_concerts(is_json, json)} :
            /\ Fits(out)
            /\ concerts' = out.concerts
            /\ concerts_key' = out.concerts_key
            /\ generated' = out.generated
            /\ response' = out.response
            /\ UNCHANGED threads

PostConcertsId ==
    \E identity \in Ids :
        \E out \in {post_concerts_id(identity)} :
            /\ concerts' = out.concerts
            /\ concerts_key' = out.concerts_key
            /\ generated' = out.generated
            /\ response' = out.response
            /\ UNCHANGED threads

GetConcerts ==
    \E limit \in Limits, offset \in Offsets, fields \in FieldLists :
        \E out \in {get_concerts(limit, offset, fields)} :
            /\ concerts' = out.concerts
            /\ concerts_key' = out.concerts_key
            /\ generated' = out.generated
            /\ response' = out.response
            /\ UNCHANGED threads

GetConcertsId ==
    \E identity \in Ids, fields \in FieldLists :
        \E out \in {get_concerts_id(identity, fields)} :
            /\ concerts' = out.concerts
            /\ concerts_key' = out.concerts_key
            /\ generated' = out.generated
            /\ response' = out.response
            /\ UNCHANGED threads

PutConcerts ==
    \E out \in {put_concerts} :
        /\ concerts' = out.concerts
        /\ concerts_key' = out.concerts_key
        /\ generated' = out.generated
        /\ response' = out.response
        /\ UNCHANGED threads

PutConcertsId ==
    \E identity \in Ids, is_json \in BOOLEAN, json \in FullOrEmpty :
        /\ is_json \/ json = EmptyDict
        /\ \E out \in {put_concerts_id(identity, is_json, json)} :
            /\ Fits(out)
            /\ concerts' = out.concerts
            /\ concerts_key' = out.concerts_key
            /\ generated' = out.generated
            /\ response' = out.response
            /\ UNCHANGED threads

PatchConcerts ==
    \E out \in {patch_concerts} :
        /\ concerts' = out.concerts
        /\ concerts_key' = out.concerts_key
        /\ generated' = out.generated
        /\ response' = out.response
        /\ UNCHANGED threads

PatchConcertsId ==
    \E identity \in Ids, is_json \in BOOLEAN, json \in FullOrEmptyOrOne :
        /\ is_json \/ json = EmptyDict
        /\ \E out \in {patch_concerts_id(identity, is_json, json)} :
            /\ concerts' = out.concerts
            /\ concerts_key' = out.concerts_key
            /\ generated' = out.generated
            /\ response' = out.response
            /\ UNCHANGED threads

DelConcerts ==
    \E out \in {del_concerts} :
        /\ concerts' = out.concerts
        /\ concerts_key' = out.concerts_key
        /\ generated' = out.generated
        /\ response' = out.response
        /\ UNCHANGED threads

DelConcertsId ==
    \E identity \in Ids :
        \E out \in {del_concerts_id(identity)} :
            /\ concerts' = out.concerts
            /\ concerts_key' = out.concerts_key
            /\ generated' = out.generated
            /\ response' = out.response
            /\ UNCHANGED threads

Next ==
    \/ PostConcerts
    \/ PostConcertsId
    \/ GetConcerts
    \/ GetConcertsId
    \/ PutConcerts
    \/ PutConcertsId
    \/ PatchConcerts
    \/ PatchConcertsId
    \/ DelConcerts
    \/ DelConcertsId

Spec == Init /\ [][Next]_vars

----------------------------------------------------------------------------
\* The threaded server: two POST /concerts requests handled at the same time,
\* each by its own thread, one step per access to the globals.  A thread can
\* be preempted between any two steps.

\* An increment that stores the value it loaded back unchanged
IncrementNone(value) == value

\* concerts_key += 1 computes the new value from the value it loaded
Increment(value) == value + 1

\* The thread returns this response
Finish(t, resp) ==
    /\ threads' = [threads EXCEPT ![t].pc = "done"]
    /\ response' = resp

\* lines 81-92: the body is read; no global is touched
RaceBegin(t) ==
    /\ threads[t].pc = "idle"
    /\ \E is_json \in BOOLEAN, json \in Bodies :
        /\ is_json \/ json = EmptyDict
        /\ UNCHANGED <<concerts, concerts_key, generated>>
        /\ IF ~is_json THEN Finish(t, ErrorResponse("Incorrect Content-Type", 400))
           ELSE IF ~({"artist", "venue", "date"} \subseteq DOMAIN json)
           THEN Finish(t, ErrorResponse("Missing field(s)", 400))
           ELSE IF fromisoformat(json["date"]) = << >>
           THEN Finish(t, ErrorResponse("Wrong datetime format", 400))
           ELSE IF "id" \in DOMAIN json /\ int(json["id"]) = << >>
           THEN Finish(t, Unhandled("ValueError"))
           ELSE /\ threads' =
                      [threads EXCEPT ![t] =
                          [pc |-> IF "id" \in DOMAIN json THEN "lookup" ELSE "read",
                           artist |-> json["artist"], venue |-> json["venue"],
                           dt |-> fromisoformat(json["date"]),
                           identity |-> IF "id" \in DOMAIN json
                                        THEN int(json["id"])[1] ELSE None,
                           loaded |-> None]]
                /\ UNCHANGED response

\* line 93: if content_index(concerts, 'id', identity)
RaceLookup(t) ==
    /\ threads[t].pc = "lookup"
    /\ UNCHANGED <<concerts, concerts_key, generated>>
    /\ IF Truthy(content_index(concerts, "id", threads[t].identity))
       THEN Finish(t, ErrorResponse("Resource already exists", 400))
       ELSE threads' = [threads EXCEPT ![t].pc = "compare"] /\ UNCHANGED response

\* line 95: the test identity < concerts_key
RaceCompare(t) ==
    /\ threads[t].pc = "compare"
    /\ threads' =
           IF threads[t].identity < concerts_key
           THEN [threads EXCEPT ![t].pc = "reload"]
           ELSE [threads EXCEPT ![t].pc = "store", ![t].loaded = threads[t].identity + 1]
    /\ UNCHANGED <<concerts, concerts_key, generated, response>>

\* line 95: the value concerts_key of the conditional expression
RaceReload(t) ==
    /\ threads[t].pc = "reload"
    /\ threads' = [threads EXCEPT ![t].pc = "store", ![t].loaded = concerts_key]
    /\ UNCHANGED <<concerts, concerts_key, generated, response>>

\* line 97: identity = concerts_key
RaceRead(t) ==
    /\ threads[t].pc = "read"
    /\ threads' = [threads EXCEPT ![t].pc = "load", ![t].identity = concerts_key]
    /\ generated' = Append(generated, concerts_key)
    /\ UNCHANGED <<concerts, concerts_key, response>>

\* line 98: concerts_key += 1, the load and the addition
RaceLoad(t) ==
    /\ threads[t].pc = "load"
    /\ threads' = [threads EXCEPT ![t].pc = "store", ![t].loaded = Increment(concerts_key)]
    /\ UNCHANGED <<concerts, concerts_key, generated, response>>

\* lines 95 and 98: the store into concerts_key
RaceStore(t) ==
    /\ threads[t].pc = "store"
    /\ concerts_key' = threads[t].loaded
    /\ threads' = [threads EXCEPT ![t].pc = "append"]
    /\ UNCHANGED <<concerts, generated, response>>

\* lines 101-107: the record is appended and the response returned
RaceAppend(t) ==
    /\ threads[t].pc = "append"
    /\ concerts' = Append(concerts, Concert(threads[t].identity, threads[t].artist,
                                            threads[t].venue, threads[t].dt[1]))
    /\ Finish(t, EmptyResponse(201, << threads[t].identity >>))
    /\ UNCHANGED <<concerts_key, generated>>

NextRace ==
    \E t \in Threads :
        \/ RaceBegin(t)
        \/ RaceLookup(t)
        \/ RaceCompare(t)
        \/ RaceReload(t)
        \/ RaceRead(t)
        \/ RaceLoad(t)
        \/ RaceStore(t)
        \/ RaceAppend(t)

SpecRace == Init /\ [][NextRace]_vars

----------------------------------------------------------------------------
\* Vocabulary of the properties

\* The ids of the records of a list
IdsOf(list) == {list[i]["id"] : i \in 1..Len(list)}

\* The positions (1-based) of the records of the store with this id
PositionsOf(identity) == {i \in 1..Len(concerts) : concerts[i]["id"] = identity}

\* The text isoformat gives for a text that parses
Canonical(text) == [text EXCEPT !.sep = "T"]

\* A record as jsonify sends it, its date being the text sent when it was stored
Sent(identity, json) ==
    [id |-> identity, artist |-> json["artist"], venue |-> json["venue"],
     date |-> Canonical(json["date"])]

----------------------------------------------------------------------------
\* C1: in every reachable state no two records of the store have the same id.
C1_UniqueIds ==
    \A i, j \in 1..Len(concerts) : i # j => concerts[i]["id"] # concerts[j]["id"]

\* C2: the counter is strictly greater than every id the server has generated,
\* and when POST /concerts or PUT /concerts/{id} accepts a client-supplied id
\* that is >= the counter, the counter is afterwards strictly greater than it.
C2_CounterAboveIds ==
    /\ \A i \in 1..Len(generated) : generated[i] < concerts_key
    /\ \A json \in Bodies :
          ( /\ "id" \in DOMAIN json
            /\ int(json["id"]) # << >>
            /\ int(json["id"])[1] >= concerts_key
            /\ post_concerts(TRUE, json).response.status = 201 )
          => post_concerts(TRUE, json).concerts_key > int(json["id"])[1]
    /\ \A identity \in Ids, json \in Fields :
          ( /\ identity >= concerts_key
            /\ put_concerts_id(identity, TRUE, json).response.status \in {201, 204} )
          => put_concerts_id(identity, TRUE, json).concerts_key > identity

\* C2 witness: an id has been generated, and a record with a larger id that a
\* client chose has just been accepted, the counter standing right above it.
C2_Witness ==
    /\ generated # << >>
    /\ response.status = 201
    /\ concerts[Len(concerts)]["id"] > generated[Len(generated)]
    /\ concerts_key = concerts[Len(concerts)]["id"] + 1

\* C3: of any two ids generated by POST /concerts without an id, the later one
\* is strictly greater than the earlier one, whatever was handled in between.
C3_GeneratedIncreasing ==
    \A i, j \in 1..Len(generated) : i < j => generated[i] < generated[j]

\* C3 witness: two ids have been generated, the second one by the request
\* handled last, and the record of the first one has been removed in between.
C3_Witness ==
    /\ Len(generated) = 2
    /\ response.status = 201
    /\ response.location = << generated[2] >>
    /\ generated[1] \notin IdsOf(concerts)

\* C4: a valid POST /concerts whose id is the id of a record of the store
\* returns 400 "Resource already exists" and changes neither store nor counter.
C4_PostExistingRejected ==
    \A json \in Bodies :
        ( /\ "id" \in DOMAIN json
          /\ int(json["id"]) # << >>
          /\ int(json["id"])[1] \in IdsOf(concerts) )
        => LET out == post_concerts(TRUE, json)
           IN  /\ out.response.status = 400
               /\ out.response.error = "Resource already exists"
               /\ out.concerts = concerts
               /\ out.concerts_key = concerts_key

\* C5: a PUT /concerts/{id} with artist, venue and date on an id of the store
\* returns 204, replaces the three fields of that record and leaves the number
\* of records and every other record unchanged.
C5_PutReplaces ==
    \A identity \in Ids, json \in ValidFields :
        identity \in IdsOf(concerts) =>
            LET out == put_concerts_id(identity, TRUE, json)
            IN  /\ out.response.status = 204
                /\ Len(out.concerts) = Len(concerts)
                /\ \A i \in 1..Len(concerts) :
                      out.concerts[i] =
                          IF concerts[i]["id"] = identity
                          THEN [id |-> identity, artist |-> json["artist"],
                                venue |-> json["venue"],
                                date |-> fromisoformat(json["date"])[1]]
                          ELSE concerts[i]

\* C6: a DELETE /concerts/{id} on an id of the store returns 200 with the
\* record as it was, removes it, and a GET of that id right after returns 404.
C6_DeleteRemoves ==
    \A identity \in Ids :
        identity \in IdsOf(concerts) =>
            LET out == del_concerts_id(identity)
            IN  /\ out.response.status = 200
                /\ \E i \in PositionsOf(identity) :
                      out.response.body =
                          << [concerts[i] EXCEPT
                                 !["date"] = isoformat(concerts[i]["date"])] >>
                /\ Len(out.concerts) = Len(concerts) - 1
                /\ identity \notin IdsOf(out.concerts)
                /\ get_concerts_id_on(out.concerts, identity, << >>).status = 404

\* C7: GET /concerts/{id} returns 200 with the stored record whenever a record
\* with that id is in the store, and 404 only when there is none; so on the
\* initial store GET /concerts/1 returns 200 with the Pink Floyd record.
C7_GetFindsStored ==
    \A identity \in Ids :
        LET answer == get_concerts_id(identity, << >>).response
        IN  /\ identity \in IdsOf(concerts) =>
                  /\ answer.status = 200
                  /\ \E i \in PositionsOf(identity) :
                        answer.body =
                            << [concerts[i] EXCEPT
                                   !["date"] = isoformat(concerts[i]["date"])] >>
            /\ answer.status = 404 => identity \notin IdsOf(concerts)

\* C8: a request that does not end with 200, 201 or 204 leaves the store and
\* the counter exactly as they were.
C8_AllOrNothing ==
    [][ response'.status \notin {200, 201, 204}
        => concerts' = concerts /\ concerts_key' = concerts_key ]_vars

\* C9: a PATCH /concerts/{id} on an id of the store returns 204 and changes
\* only the fields of that record that the body carries; on an id that is not
\* in the store it returns 404 and changes nothing.
C9_PatchFrame ==
    \A identity \in Ids, json \in Fields :
        LET out == patch_concerts_id(identity, TRUE, json)
        IN  IF identity \in IdsOf(concerts)
            THEN /\ out.response.status = 204
                 /\ out.concerts_key = concerts_key
                 /\ Len(out.concerts) = Len(concerts)
                 /\ \A i \in 1..Len(concerts) :
                       /\ concerts[i]["id"] # identity => out.concerts[i] = concerts[i]
                       /\ out.concerts[i]["id"] = concerts[i]["id"]
                       /\ \A key \in {"artist", "venue", "date"} \ DOMAIN json :
                             out.concerts[i][key] = concerts[i][key]
                       /\ \A key \in {"artist", "venue"} \cap DOMAIN json :
                             concerts[i]["id"] = identity
                                 => out.concerts[i][key] = json[key]
            ELSE /\ out.response.status = 404
                 /\ out.concerts = concerts
                 /\ out.concerts_key = concerts_key

\* C10: a PUT /concerts/{id} with artist, venue and a date that parses, on an
\* id that is not in the store, returns 201, appends exactly one record with
\* that id and those values, leaves the counter above the id when the id was
\* >= the counter, and a GET of that id right after returns 200 with that record.
C10_PutCreates ==
    \A identity \in Ids, json \in ValidFields :
        identity \notin IdsOf(concerts) =>
            \A out \in {put_concerts_id(identity, TRUE, json)} :
            \A last \in {Len(out.concerts)} :
                /\ out.response.status = 201
                /\ last = Len(concerts) + 1
                /\ SubSeq(out.concerts, 1, Len(concerts)) = concerts
                /\ out.concerts[last]["id"] = identity
                /\ out.concerts[last]["artist"] = json["artist"]
                /\ out.concerts[last]["venue"] = json["venue"]
                /\ isoformat(out.concerts[last]["date"]) = Canonical(json["date"])
                /\ identity >= concerts_key => out.concerts_key > identity
                /\ get_concerts_id_on(out.concerts, identity, << >>)
                       = ObjectResponse(Sent(identity, json), 200)

\* C10 witness: PUT /concerts/4 has just created the third record, the only
\* one with id 4, and moved the counter from below 5 to 5.
C10_Witness ==
    /\ response.status = 201
    /\ response.location = << >>
    /\ Len(concerts) = 3
    /\ concerts[3]["id"] = 4
    /\ concerts_key = 5
    /\ PositionsOf(4) = {3}

\* C11: every request that does not succeed is answered with a status in
\* {400, 404, 405, 409}: no response is an unhandled error (HTTP 500), whatever
\* the date text of a PUT or PATCH body and whatever the id of a POST body.
C11_FailuresCaught ==
    \/ response = NoResponse
    \/ response.status \in {200, 201, 204}
    \/ /\ response.status \in {400, 404, 405, 409}
       /\ response.kind = "error"

\* C12: POST /concerts/{id} changes neither store nor counter, and answers 409
\* "Resource already exists" when a record of the store has that id and 404
\* "Resource not found" when none has.
C12_PostIdReports ==
    \A identity \in Ids :
        \A out \in {post_concerts_id(identity)} :
            /\ out.concerts = concerts
            /\ out.concerts_key = concerts_key
            /\ out.response =
                   IF identity \in IdsOf(concerts)
                   THEN ErrorResponse("Resource already exists", 409)
                   ELSE ErrorResponse("Resource not found", 404)

\* after is before with one record more, put at the end
Appended(before, after) ==
    /\ Len(after) = Len(before) + 1
    /\ SubSeq(after, 1, Len(before)) = before

\* after has the records of before at the same positions, and only records
\* with this id differ
InPlace(before, after, identity) ==
    /\ Len(after) = Len(before)
    /\ \A i \in 1..Len(before) :
           /\ after[i]["id"] = before[i]["id"]
           /\ after[i] # before[i] => before[i]["id"] = identity

\* after is before without one record with this id, the others in their order
Removed(before, after, identity) ==
    \E k \in 1..Len(before) :
        /\ before[k]["id"] = identity
        /\ after = [i \in 1..(Len(before) - 1) |->
                        IF i < k THEN before[i] ELSE before[i + 1]]

\* C13: GET /concerts without limit and offset lists the records in the order
\* of the store, and every request keeps that order the order of insertion:
\* POST and a creating PUT put the new record at the end, a replacing PUT and
\* PATCH leave every record at its position, DELETE takes one record out and
\* keeps the others in their order.
C13_InsertionOrder ==
    /\ \A listed \in {get_concerts(0, 0, << >>).response.body} :
           /\ Len(listed) = Len(concerts)
           /\ \A i \in 1..Len(concerts) :
                  /\ listed[i]["id"] = concerts[i]["id"]
                  /\ listed[i]["artist"] = concerts[i]["artist"]
                  /\ listed[i]["venue"] = concerts[i]["venue"]
                  /\ listed[i]["date"] = isoformat(concerts[i]["date"])
    /\ \A json \in Bodies :
           \A out \in {post_concerts(TRUE, json)} :
               IF out.response.status = 201
               THEN Appended(concerts, out.concerts)
               ELSE out.concerts = concerts
    /\ \A identity \in Ids, json \in FullOrEmpty :
           \A out \in {put_concerts_id(identity, TRUE, json)} :
               CASE out.response.status = 201 ->
                        /\ Appended(concerts, out.concerts)
                        /\ out.concerts[Len(out.concerts)]["id"] = identity
                 [] out.response.status = 204 ->
                        InPlace(concerts, out.concerts, identity)
                 [] OTHER -> out.concerts = concerts
    /\ \A identity \in Ids, json \in FullOrEmpty :
           InPlace(concerts, patch_concerts_id(identity, TRUE, json).concerts, identity)
    /\ \A identity \in Ids :
           \A out \in {del_concerts_id(identity)} :
               IF out.response.status = 200
               THEN Removed(concerts, out.concerts, identity)
               ELSE out.concerts = concerts

\* C13 witness: the record with id 2 was deleted and created again after the
\* record with id 3, and GET /concerts has just listed the ids as 1, 3, 2.
C13_Witness ==
    /\ Len(concerts) = 3
    /\ concerts[2]["id"] = 3
    /\ concerts[3]["id"] = 2
    /\ concerts[3]["artist"] = "Muse"
    /\ response.kind = "array"
    /\ Len(response.body) = 3
    /\ \A i \in 1..3 : response.body[i]["id"] = concerts[i]["id"]

\* The limits and offsets of the paging property: offset + limit goes up to
\* past the end of the longest store
PageArgs == 0..MaxLen

\* The lists of the paging property: the store, which has every length from 1
\* to MaxLen over the reachable states, and the empty list
PagedLists == {concerts, << >>}

\* list[offset : offset + limit] spelled out position by position
Page(list, limit, offset) ==
    LET taken == {p \in 1..Len(list) : offset < p /\ p <= offset + limit}
    IN  [i \in 1..Cardinality(taken) |-> list[offset + i]]

\* C14: for every list and all limits and offsets >= 0, limit_offset returns
\* the whole list when both are 0 and otherwise the records at the 0-based
\* positions offset .. offset+limit-1 that exist; limit 0 with an offset > 0
\* gives the empty list, and limit 1, offset 1 on a store of two records
\* gives the second record alone, also through GET /concerts.
C14_LimitOffset ==
    /\ \A list \in PagedLists, limit \in PageArgs, offset \in PageArgs :
           LET result == limit_offset(list, limit, offset)
           IN  /\ result = IF limit = 0 /\ offset = 0 THEN list
                           ELSE Page(list, limit, offset)
               /\ (limit = 0 /\ offset > 0) => result = << >>
    /\ Len(concerts) = 2 =>
           /\ limit_offset(concerts, 1, 1) = << concerts[2] >>
           /\ get_concerts(1, 1, << >>).response.body =
                  encode_date(<< concerts[2] >>, << "date" >>)

\* C14 witness: GET /concerts?limit=1&offset=1 has just answered with the
\* second record alone, the store having two records.
C14_Witness ==
    /\ Len(concerts) = 2
    /\ response.kind = "array"
    /\ Len(response.body) = 1
    /\ DOMAIN response.body[1] = DOMAIN concerts[2]
    /\ response.body[1]["id"] = concerts[2]["id"]

BothDone == \A t \in Threads : threads[t].pc = "done"

\* C16: two POST /concerts without an id handled concurrently: when both have
\* returned, the first id generated is the initial counter, the second is the
\* same id or the next one, and the counter has advanced by one or by two; it
\* has advanced by one only if both requests were given the same id, the store
\* then ending with two records with that id.
C16_RaceSharedId ==
    (BothDone /\ Len(generated) = 2) =>
        LET last == Len(concerts)
        IN  /\ generated[1] = InitConcertsKey
            /\ generated[2] \in {InitConcertsKey, InitConcertsKey + 1}
            /\ concerts_key \in {InitConcertsKey + 1, InitConcertsKey + 2}
            /\ generated[2] = InitConcertsKey + 1 => concerts_key = InitConcertsKey + 2
            /\ last = Len(InitConcerts) + 2
            /\ {concerts[last - 1]["id"], concerts[last]["id"]}
                   = {generated[1], generated[2]}

\* C16 witness: both requests have returned, both were given the id 3, and
\* the counter has gone from 3 to 4 only.
C16_Witness ==
    /\ BothDone
    /\ generated = << InitConcertsKey, InitConcertsKey >>
    /\ concerts_key = InitConcertsKey + 1
    /\ Len(concerts) = 4
    /\ concerts[3]["id"] = InitConcertsKey
    /\ concerts[4]["id"] = InitConcertsKey
    /\ response = EmptyResponse(201, << InitConcertsKey >>)

\* The record with only these keys
Only(record, keys) == [k \in DOMAIN record \cap keys |-> record[k]]

\* The lists of the encoding property: the store, the store with the named
\* fields only, the empty list, and the store with the date taken out of its
\* first record only
EncodeLists ==
    {concerts, reduce_fields(concerts, << "artist" >>),
     reduce_fields(concerts, << "id", "date" >>), << >>}
    \cup {[concerts EXCEPT ![1] = Only(concerts[1], {"id", "artist", "venue"})]}

\* The fields arguments of the encoding property
EncodeFields == {<< "date" >>, << "date", "date" >>, << "date", "until" >>}

C19_CounterAboveStore ==
    /\ \A i \in 1..Len(concerts) : concerts[i]["id"] < concerts_key
    /\ \A json \in Bodies : post_concerts(TRUE, json).concerts_key >= concerts_key
    /\ \A identity \in Ids, json \in FullOrEmpty :
           /\ put_concerts_id(identity, TRUE, json).concerts_key >= concerts_key
           /\ patch_concerts_id(identity, TRUE, json).concerts_key = concerts_key
    /\ \A identity \in Ids :
           /\ del_concerts_id(identity).concerts_key = concerts_key
           /\ post_concerts_id(identity).concerts_key = concerts_key
    /\ \A json \in ValidFields :
           \A out \in {post_concerts(TRUE, json)} :
           \A last \in {Len(out.concerts)} :
               /\ out.response.status = 201
               /\ out.response.location = << out.concerts[last]["id"] >>
               /\ out.concerts[last]["id"] \notin IdsOf(concerts)
               /\ out.concerts[last]["id"] < out.concerts_key

\* C19 witness: a client-supplied id 3 moved the counter to 4, and POST
\* /concerts has just generated the id 4 and moved the counter to 5.
C19_Witness ==
    /\ response = EmptyResponse(201, << 4 >>)
    /\ generated = << 4 >>
    /\ concerts_key = 5
    /\ 3 \in IdsOf(concerts)
    /\ concerts[Len(concerts)]["id"] = 4

====
